---- MODULE Spec2Model ----
(***************************************************************************)
(* Model of the MCP weather server (src/mcp/server.py) and of the weather  *)
(* tools it calls (src/mcp/tools/weather.py).                              *)
(*                                                                         *)
(* The server is one asyncio event loop: the code between two awaits (or   *)
(* yields) of a handler runs atomically, and every await / yield is a      *)
(* point where other handlers may run.  Each action below is one such      *)
(* atomic piece.  The session store is the module-level dict               *)
(* active_sessions; the clock is time.time().                              *)
(*                                                                         *)
(* Text is modelled as a sequence of tokens (words and the punctuation     *)
(* marks ? . ,), rendered messages as records naming the f-string that     *)
(* produced them and the values substituted into it.                       *)
(***************************************************************************)
EXTENDS Integers, Sequences, FiniteSets, TLC

\* ------------------------------------------------------------------ bounds
\* The clock advances in steps of ClockStep seconds, at most MaxTicks times.
MaxTicks == 4
\* How many uuid4 session ids the runs generate.
MaxIds == 2
\* The same two bounds for the runs that serve one request at a time (SpecSeq).
SeqTicks == 1
SeqIds == 2
\* The concurrent request handlers (asyncio tasks).
Tasks == {"t1", "t2"}

\* --------------------------------------------------------------- constants
SESSION_EXPIRATION == 300
\* session_id: Optional[str] = None -- the absent (or empty) query parameter.
NoSessionId == 0

ClockSteps == {100}
Horizon == MaxTicks * 100
SeqHorizon == SeqTicks * 100
SessionIds == 1..MaxIds

\* --------------------------------------------------------------------- text
Punctuation == {"?", ".", ","}

\* str.lower() on the tokens of the vocabulary.
Lower(tok) ==
    CASE tok = "Forecast" -> "forecast"
      [] tok = "Weather" -> "weather"
      [] OTHER -> tok

\* The keywords a (lower-cased) token contains as a substring.
Substrings(tok) ==
    CASE tok = "forecast" -> {"forecast"}
      [] tok = "forecasts" -> {"forecast"}
      [] tok = "tomorrow" -> {"tomorrow"}
      [] tok = "next" -> {"next"}
      [] OTHER -> {}

\* JSON values a "content" member may hold: a string or something else.
JStr(toks) == [t |-> "str", v |-> toks]
JNum == [t |-> "num", v |-> <<>>]

QForecastParis == <<"what", "is", "the", "Weather", "Forecast", "for", "Paris", "?">>
QLikeTokyo == <<"what", "is", "the", "weather", "like", "in", "Tokyo", "?">>
QHello == <<"hello">>
QTomorrow == <<"rain", "tomorrow", "in", "New", "York", ",", "please">>

\* The leftmost match of  <words> ([^?.,]+)  in toks, re.IGNORECASE:
\* the captured run of tokens, or <<>> when the pattern matches nowhere.
RECURSIVE Run(_, _)
Run(toks, i) ==
    IF i > Len(toks) \/ toks[i] \in Punctuation
    THEN <<>>
    ELSE <<toks[i]>> \o Run(toks, i + 1)

MatchesAt(toks, words, i) ==
    /\ i + Len(words) <= Len(toks)
    /\ \A k \in 1..Len(words) : Lower(toks[i + k - 1]) = words[k]
    /\ toks[i + Len(words)] \notin Punctuation

re_search(words, toks) ==
    LET hits == {i \in 1..Len(toks) : MatchesAt(toks, words, i)}
    IN IF hits = {} THEN <<>>
       ELSE LET first == CHOOSE i \in hits : \A j \in hits : i <= j
            IN Run(toks, first + Len(words))

\* server.py 65-70: the three patterns in order, default London.
extract_city(toks) ==
    LET m1 == re_search(<<"weather", "like", "in">>, toks)
        m2 == re_search(<<"forecast", "for">>, toks)
        m3 == re_search(<<"weather", "forecast", "for">>, toks)
    IN IF m1 # <<>> THEN m1
       ELSE IF m2 # <<>> THEN m2
       ELSE IF m3 # <<>> THEN m3
       ELSE <<"London">>

\* server.py 76: forecast / tomorrow / next anywhere in query.lower().
wants_forecast(toks) ==
    \E i \in 1..Len(toks) : Substrings(Lower(toks[i])) # {}


\* ------------------------------------------------------------ weather tools
\* What the OpenWeather request inside a tool does.
ProviderOutcomes == {"ok", "Timeout", "NotFound", "ServiceUnavailable", "Unknown"}

\* A rendered message: the template that produced it and what it was filled with.
Text(tpl, city, detail) == [tpl |-> tpl, city |-> city, detail |-> detail]
NoText == Text("", <<>>, "")

\* weather.py 62-89: every exception is turned into a returned string.
get_current_weather_impl(city, outcome) ==
    CASE outcome = "ok" -> Text("Current weather in {name}, {country}: ...", city, "")
      [] outcome = "Timeout" ->
           Text("Error: Timeout while getting weather data for {city}. Please try again later.", city, "")
      [] outcome = "NotFound" ->
           Text("Error: Could not find weather data for {city}. Please check the city name and try again.", city, "")
      [] outcome = "ServiceUnavailable" ->
           Text("Error: Could not retrieve weather data for {city}. The weather service might be unavailable.", city, "")
      [] OTHER ->
           Text("Error: An unexpected error occurred while getting weather data for {city}.", city, "")

\* weather.py 91-140
get_weather_forecast_impl(city, outcome) ==
    CASE outcome = "ok" -> Text("5-day forecast for {name}, {country}: ...", city, "")
      [] outcome = "Timeout" ->
           Text("Error: Timeout while getting forecast data for {city}. Please try again later.", city, "")
      [] outcome = "NotFound" ->
           Text("Error: Could not find forecast data for {city}. Please check the city name and try again.", city, "")
      [] outcome = "ServiceUnavailable" ->
           Text("Error: Could not retrieve forecast data for {city}. The weather service might be unavailable.", city, "")
      [] OTHER ->
           Text("Error: An unexpected error occurred while getting forecast data for {city}.", city, "")

\* The awaited call of server.py 76-81: what came back, and whether
\* it came back as a raised exception (the tools raise none).
call_tool(query, city, outcome) ==
    [raised |-> FALSE,
     error |-> "",
     outcome |-> outcome,
     value |-> IF wants_forecast(query)
               THEN get_weather_forecast_impl(city, outcome)
               ELSE get_current_weather_impl(city, outcome)]

\* server.py 84-102: the answer text, or the in-band error text.
answer_text(r, city) ==
    IF r.raised
    THEN Text("Error: Could not get weather data for {city}. {e}", city, r.error)
    ELSE r.value

\* ----------------------------------------------------------- request bodies
\* json: whether request.json() parses; stream: the "stream" member;
\* messages: the shape of the "messages" member; content: messages[0].content.
Body(json, stream, messages, content) ==
    [json |-> json, stream |-> stream, messages |-> messages, content |-> content]
NoBody == Body(TRUE, "absent", "absent", JStr(<<>>))
Unparseable == Body(FALSE, "absent", "absent", JStr(<<>>))

Contents == {JStr(QForecastParis), JStr(QLikeTokyo), JStr(QTomorrow), JNum}

MessageShapes ==
    {<<m, JStr(<<>>)>> : m \in {"absent", "empty", "nonobj", "nocontent"}}
      \cup {<<"content", c>> : c \in Contents}

InitialBodies ==
    {Unparseable} \cup
    {Body(TRUE, s, mc[1], mc[2]) : s \in {"true", "false", "absent"}, mc \in MessageShapes}

StreamBodies ==
    {Unparseable} \cup {Body(TRUE, "absent", mc[1], mc[2]) : mc \in MessageShapes}

\* body.get("stream", True), then its truth value (server.py 56-58).
stream_requested(body) == body.stream # "false"

\* A reading of messages[0] that takes an empty list for a missing one.
first_content_lenient(body) ==
    CASE body.messages = "nonobj" -> [raised |-> TRUE, error |-> "AttributeError", value |-> JStr(<<>>)]
      [] body.messages = "content" -> [raised |-> FALSE, error |-> "", value |-> body.content]
      [] OTHER -> [raised |-> FALSE, error |-> "", value |-> JStr(<<>>)]

\* body.get("messages", [{}])[0].get("content", "")  (server.py 60 and 114):
\* the value, or the exception the expression raises.
first_content(body) ==
    CASE body.messages = "empty" -> [raised |-> TRUE, error |-> "IndexError", value |-> JStr(<<>>)]
      [] body.messages = "nonobj" -> [raised |-> TRUE, error |-> "AttributeError", value |-> JStr(<<>>)]
      [] body.messages = "content" -> [raised |-> FALSE, error |-> "", value |-> body.content]
      [] OTHER -> [raised |-> FALSE, error |-> "", value |-> JStr(<<>>)]

\* server.py 209-211: the query of the session unless the body brings one.
effective_query(body, stored) ==
    CASE body.messages = "nonobj" -> [raised |-> TRUE, error |-> "AttributeError", value |-> stored]
      [] body.messages = "content" -> [raised |-> FALSE, error |-> "", value |-> body.content]
      [] OTHER -> [raised |-> FALSE, error |-> "", value |-> stored]

\* ---------------------------------------------------------------- responses
Response(kind, session_id, content) ==
    [kind |-> kind, session_id |-> session_id, role |-> IF kind = "choices" THEN "assistant" ELSE "",
     content |-> content, finish_reason |-> IF kind = "choices" THEN "stop" ELSE ""]
NoResponse == Response("none", NoSessionId, NoText)
\* server.py 123: event: endpoint / data: /v1/mcp/messages/?session_id=<id>
EndpointFrame(session_id) == Response("endpoint", session_id, NoText)
\* server.py 84-94 and 97-107
ChoicesResponse(content) == Response("choices", NoSessionId, content)

\* server.py 167 / 172 / 183 and 168 / 173 / 184: the two SSE data frames.
DeltaFrame(content) == [kind |-> "delta", role |-> "assistant", content |-> content, finish_reason |-> ""]
FinishFrame == [kind |-> "finish", role |-> "", content |-> NoText, finish_reason |-> "stop"]

\* -------------------------------------------------------------------- state
VARIABLES
    active_sessions,  \* server.py 37: session id -> [query, timestamp]
    uuids,            \* how many session ids uuid.uuid4() has produced
    now,              \* time.time(), in seconds
    task              \* the request handlers in flight, one record each

vars == <<active_sessions, uuids, now, task>>

\* A handler: where it is suspended (pc), its request (op, session_id, body),
\* its locals (session_data, query, city), what it has sent (status, detail,
\* response, frames), how many tool calls it made (calls), what the provider
\* did in the last of them (outcome), whether its line 177 wrote the
\* session's timestamp (touched) and what its sweep returned (num_expired,
\* a local of handle_messages: 0 again once that handler has returned).
IdleTask ==
    [pc |-> "idle", op |-> "none", session_id |-> NoSessionId, body |-> NoBody,
     session_data |-> JStr(<<>>), query |-> JStr(<<>>), city |-> <<>>,
     status |-> 0, detail |-> "", response |-> NoResponse, frames |-> <<>>,
     calls |-> 0, outcome |-> "", touched |-> FALSE, num_expired |-> 0]

Init ==
    /\ active_sessions = << >>
    /\ uuids = 0
    /\ now = 0
    /\ task = [t \in Tasks |-> IdleTask]

\* A handler task exists per request: t is free to serve the next one.
Free(t) == task[t].pc = "idle"

\* raise HTTPException(status_code, detail)
Raise(rec, status, detail) ==
    [rec EXCEPT !.pc = "done", !.status = status, !.detail = detail]

\* --------------------------------------------------------- the session store
\* A sweep that also takes the records that are exactly SESSION_EXPIRATION old.
expired_sessions_inclusive(sessions, current_time) ==
    {id \in DOMAIN sessions : current_time - sessions[id].timestamp >= SESSION_EXPIRATION}

\* server.py 132-135
expired_sessions(sessions, current_time) ==
    {id \in DOMAIN sessions : current_time - sessions[id].timestamp > SESSION_EXPIRATION}

\* server.py 141: what the sweep returns.
num_expired_sessions(sessions, current_time) ==
    Cardinality(expired_sessions(sessions, current_time))

\* server.py 129-141: the store after the sweep.
cleanup_expired_sessions(sessions, current_time) ==
    [id \in DOMAIN sessions \ expired_sessions(sessions, current_time) |-> sessions[id]]

\* A store_session that stamps the session with the epoch, not the clock.
store_session_unstamped(sessions, session_id, query, current_time) ==
    [id \in DOMAIN sessions \cup {session_id} |->
        IF id = session_id THEN [query |-> query, timestamp |-> 0]
        ELSE sessions[id]]

\* server.py 110-118: the store with the new session.
store_session(sessions, session_id, query, current_time) ==
    [id \in DOMAIN sessions \cup {session_id} |->
        IF id = session_id THEN [query |-> query, timestamp |-> current_time]
        ELSE sessions[id]]

\* A refresh without the membership test: it stores a record for a session
\* that is gone.
update_timestamp_reinserting(sessions, session_id, current_time) ==
    [id \in DOMAIN sessions \cup {session_id} |->
        IF id = session_id
        THEN [query |-> IF id \in DOMAIN sessions THEN sessions[id].query ELSE JStr(<<>>),
              timestamp |-> current_time]
        ELSE sessions[id]]

\* A refresh that finds the session and writes nothing.
update_timestamp_skipped(sessions, session_id, current_time) == sessions

\* server.py 176-177: the store after the completion-time refresh.
update_timestamp(sessions, session_id, current_time) ==
    IF session_id \in DOMAIN sessions
    THEN [sessions EXCEPT ![session_id].timestamp = current_time]
    ELSE sessions


\* ------------------------------------------------------ POST /v1/mcp (48-126)
\* server.py 60-70: the query and the city of a non-streaming request, or the
\* exception raised on the way (re.search raises TypeError on a non-string).
interpret(content) ==
    IF content.t # "str"
    THEN [raised |-> TRUE, error |-> "TypeError", city |-> <<>>]
    ELSE [raised |-> FALSE, error |-> "", city |-> extract_city(content.v)]

\* server.py 50-126, from the parsed body to the first await or the return:
\* the handler's record and the session store afterwards.
mcp_request_step(rec, body, sessions, session_id, current_time) ==
    LET req == [rec EXCEPT !.op = "initial", !.body = body]
        c == first_content(body)
        i == interpret(c.value)
    IN IF ~body.json
       THEN [task |-> Raise(req, 500, "JSONDecodeError"), sessions |-> sessions, created |-> FALSE]
       ELSE IF c.raised
       THEN [task |-> Raise(req, 500, c.error), sessions |-> sessions, created |-> FALSE]
       ELSE IF ~stream_requested(body)
       THEN IF i.raised
            THEN [task |-> Raise(req, 500, i.error), sessions |-> sessions, created |-> FALSE]
            ELSE [task |-> [req EXCEPT !.pc = "tool", !.query = c.value, !.city = i.city],
                  sessions |-> sessions, created |-> FALSE]
       ELSE [task |-> [req EXCEPT !.pc = "done", !.status = 200, !.session_id = session_id,
                                  !.response = EndpointFrame(session_id)],
             sessions |-> store_session(sessions, session_id, c.value, current_time),
             created |-> TRUE]

\* A handler that turns a failed provider call into an HTTP error.
mcp_tool_result_raising(rec, r) ==
    IF r.outcome = "ok"
    THEN [rec EXCEPT !.pc = "done", !.status = 200, !.calls = @ + 1, !.outcome = r.outcome,
                     !.response = ChoicesResponse(answer_text(r, rec.city))]
    ELSE [rec EXCEPT !.pc = "done", !.status = 500, !.calls = @ + 1, !.outcome = r.outcome,
                     !.detail = r.outcome]

\* server.py 74-107: the response once the awaited tool call is back.
mcp_tool_result(rec, r) ==
    [rec EXCEPT !.pc = "done", !.status = 200, !.calls = @ + 1, !.outcome = r.outcome,
                !.response = ChoicesResponse(answer_text(r, rec.city))]

handle_mcp_request(t, body, ids) ==
    /\ Free(t)
    /\ LET out == mcp_request_step(IdleTask, body, active_sessions, uuids + 1, now)
       IN /\ out.created => uuids < ids
          /\ task' = [task EXCEPT ![t] = out.task]
          /\ active_sessions' = out.sessions
          /\ uuids' = IF out.created THEN uuids + 1 ELSE uuids
    /\ UNCHANGED now

mcp_tool_return(t, outcome) ==
    /\ task[t].pc = "tool"
    /\ task' = [task EXCEPT ![t] =
                  mcp_tool_result(@, call_tool(task[t].query.v, task[t].city, outcome))]
    /\ UNCHANGED <<active_sessions, uuids, now>>

\* -------------------------------------------- POST /v1/mcp/messages/ (186-230)
\* A handler without its "except HTTPException: raise": the 404 reaches the
\* generic handler and leaves as a 500.
session_not_found_generic(req) == Raise(req, 500, "404: Session not found or expired")

\* server.py 200-202 and 226-227: the 404 is raised and passed on as it is.
session_not_found(req) == Raise(req, 404, "Session not found or expired")

\* A handler that looks the session up before it sweeps.
messages_step_lookup_first(rec, session_id, sessions, current_time) ==
    LET req == [rec EXCEPT !.op = "messages", !.session_id = session_id]
        kept == cleanup_expired_sessions(sessions, current_time)
        n == num_expired_sessions(sessions, current_time)
    IN IF session_id = NoSessionId
       THEN [task |-> Raise(req, 400, "session_id is required"), sessions |-> sessions]
       ELSE IF session_id \notin DOMAIN sessions
       THEN [task |-> session_not_found([req EXCEPT !.num_expired = n]), sessions |-> kept]
       ELSE [task |-> [req EXCEPT !.pc = "body", !.num_expired = n,
                                  !.session_data = sessions[session_id].query],
             sessions |-> kept]

\* A handler that sweeps before it checks session_id.
messages_step_sweep_first(rec, session_id, sessions, current_time) ==
    LET req == [rec EXCEPT !.op = "messages", !.session_id = session_id]
        kept == cleanup_expired_sessions(sessions, current_time)
        n == num_expired_sessions(sessions, current_time)
    IN IF session_id = NoSessionId
       THEN [task |-> Raise(req, 400, "session_id is required"), sessions |-> kept]
       ELSE IF session_id \notin DOMAIN kept
       THEN [task |-> session_not_found([req EXCEPT !.num_expired = n]), sessions |-> kept]
       ELSE [task |-> [req EXCEPT !.pc = "body", !.num_expired = n,
                                  !.session_data = kept[session_id].query],
             sessions |-> kept]

\* server.py 189-205, up to the await of the request body: the handler's
\* record and the session store afterwards.
messages_step(rec, session_id, sessions, current_time) ==
    LET req == [rec EXCEPT !.op = "messages", !.session_id = session_id]
        kept == cleanup_expired_sessions(sessions, current_time)
        n == num_expired_sessions(sessions, current_time)
    IN IF session_id = NoSessionId
       THEN [task |-> Raise(req, 400, "session_id is required"), sessions |-> sessions]
       ELSE IF session_id \notin DOMAIN kept
       THEN [task |-> session_not_found([req EXCEPT !.num_expired = n]), sessions |-> kept]
       ELSE [task |-> [req EXCEPT !.pc = "body", !.num_expired = n,
                                  !.session_data = kept[session_id].query],
             sessions |-> kept]

\* server.py 205-230, from the parsed body to the StreamingResponse.
messages_body_step(rec, body) ==
    LET req == [rec EXCEPT !.body = body, !.num_expired = 0]
        q == effective_query(body, rec.session_data)
    IN IF ~body.json THEN Raise(req, 500, "JSONDecodeError")
       ELSE IF q.raised THEN Raise(req, 500, q.error)
       ELSE [req EXCEPT !.pc = "gen", !.status = 200, !.query = q.value]

handle_messages(t, session_id) ==
    /\ Free(t)
    /\ LET out == messages_step(IdleTask, session_id, active_sessions, now)
       IN /\ task' = [task EXCEPT ![t] = out.task]
          /\ active_sessions' = out.sessions
    /\ UNCHANGED <<uuids, now>>

messages_body(t, body) ==
    /\ task[t].pc = "body"
    /\ task' = [task EXCEPT ![t] = messages_body_step(@, body)]
    /\ UNCHANGED <<active_sessions, uuids, now>>

\* ------------------------------------------- stream_weather_response (143-184)
\* The generator carries its own copy of the interpretation of the query.
\* server.py 148-153: the three patterns in order, default London.
stream_extract_city(toks) ==
    LET m1 == re_search(<<"weather", "like", "in">>, toks)
        m2 == re_search(<<"forecast", "for">>, toks)
        m3 == re_search(<<"weather", "forecast", "for">>, toks)
    IN IF m1 # <<>> THEN m1
       ELSE IF m2 # <<>> THEN m2
       ELSE IF m3 # <<>> THEN m3
       ELSE <<"London">>

\* An intent test on the query as written, without lower().
stream_wants_forecast_as_written(toks) ==
    \E i \in 1..Len(toks) : Substrings(toks[i]) # {}

\* server.py 159: forecast / tomorrow / next anywhere in query.lower().
stream_wants_forecast(toks) ==
    \E i \in 1..Len(toks) : Substrings(Lower(toks[i])) # {}

\* server.py 146-153: the city of the query, or the exception raised on the
\* way (re.search raises TypeError on a non-string).
stream_interpret(query) ==
    IF query.t # "str"
    THEN [raised |-> TRUE, error |-> "TypeError", city |-> <<>>]
    ELSE [raised |-> FALSE, error |-> "", city |-> stream_extract_city(query.v)]

\* The awaited call of server.py 159-164.
stream_call_tool(query, city, outcome) ==
    [raised |-> FALSE,
     error |-> "",
     outcome |-> outcome,
     value |-> IF stream_wants_forecast(query)
               THEN get_weather_forecast_impl(city, outcome)
               ELSE get_current_weather_impl(city, outcome)]

\* server.py 167 / 169-172: the content of the first frame.
stream_answer_text(r, city) ==
    IF r.raised
    THEN Text("Error: Could not get weather data for {city}. {e}", city, r.error)
    ELSE r.value

\* A generator without its outer "except Exception": the exception ends it.
stream_start_unhandled(rec) ==
    LET i == stream_interpret(rec.query)
    IN IF i.raised
       THEN [rec EXCEPT !.pc = "done", !.body = NoBody, !.session_data = JStr(<<>>)]
       ELSE [rec EXCEPT !.pc = "tool_s", !.city = i.city, !.body = NoBody,
                        !.session_data = JStr(<<>>)]

\* server.py 145-164: from the first resumption to the awaited tool call, or
\* to the first yield of the outer handler (180-183).
stream_start(rec) ==
    LET i == stream_interpret(rec.query)
    IN IF i.raised
       THEN [rec EXCEPT !.pc = "ey1", !.body = NoBody, !.session_data = JStr(<<>>), !.frames = Append(@,
               DeltaFrame(Text("Sorry, I encountered an error while getting the weather information: {e}",
                               <<>>, i.error)))]
       ELSE [rec EXCEPT !.pc = "tool_s", !.city = i.city, !.body = NoBody,
                        !.session_data = JStr(<<>>)]

\* server.py 164-167 / 169-172: the tool call is back, the first frame is yielded.
stream_first_frame(rec, r) ==
    [rec EXCEPT !.pc = "y1", !.calls = @ + 1, !.outcome = r.outcome,
                !.frames = Append(@, DeltaFrame(stream_answer_text(r, rec.city)))]

\* server.py 168 / 173 / 184: resumed after the first frame, the second is yielded.
stream_second_frame(rec) ==
    [rec EXCEPT !.pc = IF rec.pc = "y1" THEN "y2" ELSE "ey2",
                !.frames = Append(@, FinishFrame)]

\* A generator that deletes the session once it has streamed the answer.
stream_finish_pops(rec, sessions, current_time) ==
    [task |-> [rec EXCEPT !.pc = "done"],
     sessions |-> [id \in DOMAIN sessions \ {rec.session_id} |-> sessions[id]]]

\* A refresh that also saves the query the request used into the session.
stream_finish_writes_query(rec, sessions, current_time) ==
    [task |-> [rec EXCEPT !.pc = "done",
                          !.touched = rec.session_id \in DOMAIN sessions],
     sessions |-> IF rec.session_id \in DOMAIN sessions
                  THEN [sessions EXCEPT ![rec.session_id] =
                           [query |-> rec.query, timestamp |-> current_time]]
                  ELSE sessions]

\* server.py 175-178: resumed after the second frame of the normal path, the
\* generator refreshes the session if it is still stored, and ends.
stream_finish(rec, sessions, current_time) ==
    [task |-> [rec EXCEPT !.pc = "done",
                          !.touched = rec.session_id \in DOMAIN sessions],
     sessions |-> update_timestamp(sessions, rec.session_id, current_time)]

stream_begin(t) ==
    /\ task[t].pc = "gen"
    /\ task' = [task EXCEPT ![t] = stream_start(@)]
    /\ UNCHANGED <<active_sessions, uuids, now>>

stream_tool_return(t, outcome) ==
    /\ task[t].pc = "tool_s"
    /\ task' = [task EXCEPT ![t] =
                  stream_first_frame(@, stream_call_tool(task[t].query.v, task[t].city, outcome))]
    /\ UNCHANGED <<active_sessions, uuids, now>>

stream_resume(t) ==
    /\ task[t].pc \in {"y1", "ey1"}
    /\ task' = [task EXCEPT ![t] = stream_second_frame(@)]
    /\ UNCHANGED <<active_sessions, uuids, now>>

stream_end(t) ==
    /\ task[t].pc = "y2"
    /\ LET out == stream_finish(task[t], active_sessions, now)
       IN /\ task' = [task EXCEPT ![t] = out.task]
          /\ active_sessions' = out.sessions
    /\ UNCHANGED <<uuids, now>>

\* server.py 184: the outer handler's generator ends after its second frame.
stream_end_error(t) ==
    /\ task[t].pc = "ey2"
    /\ task' = [task EXCEPT ![t].pc = "done"]
    /\ UNCHANGED <<active_sessions, uuids, now>>

\* The response (or the last frame) is delivered and the handler's task ends.
task_exit(t) ==
    /\ task[t].pc = "done"
    /\ task' = [task EXCEPT ![t] = IdleTask]
    /\ UNCHANGED <<active_sessions, uuids, now>>

\* -------------------------------------------------------------------- clock
Tick(d, horizon) ==
    /\ now + d <= horizon
    /\ now' = now + d
    /\ UNCHANGED <<active_sessions, uuids, task>>

\* The requests of the runs with concurrent handlers: few shapes of body.
SomeInitialBodies ==
    {Unparseable, Body(TRUE, "true", "content", JStr(QLikeTokyo)),
     Body(TRUE, "false", "content", JStr(QLikeTokyo))}
SomeStreamBodies ==
    {Unparseable, Body(TRUE, "absent", "absent", JStr(<<>>)), Body(TRUE, "absent", "content", JNum)}

Step(tasks, ibodies, sbodies, outcomes, ids, horizon) ==
    \/ \E t \in tasks, body \in ibodies : handle_mcp_request(t, body, ids)
    \/ \E t \in tasks, outcome \in outcomes : mcp_tool_return(t, outcome)
    \/ \E t \in tasks, session_id \in SessionIds \cup {NoSessionId} : handle_messages(t, session_id)
    \/ \E t \in tasks, body \in sbodies : messages_body(t, body)
    \/ \E t \in tasks : stream_begin(t)
    \/ \E t \in tasks, outcome \in outcomes : stream_tool_return(t, outcome)
    \/ \E t \in tasks : stream_resume(t)
    \/ \E t \in tasks : stream_end(t)
    \/ \E t \in tasks : stream_end_error(t)
    \/ \E t \in tasks : task_exit(t)
    \/ \E d \in ClockSteps : Tick(d, horizon)

\* Concurrent handlers, the clock running past the expiry time.
Next == Step(Tasks, SomeInitialBodies, SomeStreamBodies, {"ok"}, MaxIds, Horizon)
Spec == Init /\ [][Next]_vars

\* One handler at a time, every shape of body and every provider outcome.
NextSeq == Step({"t1"}, InitialBodies, StreamBodies, ProviderOutcomes, SeqIds, SeqHorizon)
SpecSeq == Init /\ [][NextSeq]_vars


\* ------------------------------------------------------------------- claims
\* The step in which handler t takes up a request of kind op.
Starts(t, op) == task[t].pc = "idle" /\ task'[t].op = op

\* The body has a messages[0] whose "content" can be read.
HasFirstMessage(body) == body.json /\ body.messages \notin {"empty", "nonobj"}

\* messages[0].content as the request wrote it ("" when it wrote none).
WrittenContent(body) == IF body.messages = "content" THEN body.content ELSE JStr(<<>>)

\* C1: an InitialRequest whose stream flag is true or absent (and whose body
\* has a readable messages[0]) adds exactly one record to the store, under an
\* id no earlier request was given, holding messages[0].content and the
\* current time; it answers 200 with the endpoint frame naming that id, and
\* the id is a key of the store when the response is returned.
C1_StreamingInitialRequestOpensSession ==
    [][\A t \in Tasks :
        (/\ Starts(t, "initial")
         /\ HasFirstMessage(task'[t].body)
         /\ task'[t].body.stream \in {"true", "absent"})
        => LET id == task'[t].response.session_id
           IN /\ task'[t].pc = "done"
              /\ task'[t].status = 200
              /\ task'[t].response = EndpointFrame(id)
              /\ id \in SessionIds
              /\ id \notin 1..uuids
              /\ id \notin DOMAIN active_sessions
              /\ DOMAIN active_sessions' = DOMAIN active_sessions \cup {id}
              /\ \A o \in DOMAIN active_sessions : active_sessions'[o] = active_sessions[o]
              /\ active_sessions'[id] =
                    [query |-> WrittenContent(task'[t].body), timestamp |-> now]
    ]_vars

\* A request without a stream flag, made after the clock has moved, has been
\* answered with the id of a session stored with that time.
C1_Witness ==
    \E t \in Tasks :
        /\ task[t].pc = "done" /\ task[t].op = "initial"
        /\ task[t].body.stream = "absent"
        /\ task[t].response.kind = "endpoint"
        /\ task[t].response.session_id \in DOMAIN active_sessions
        /\ now > 0
        /\ active_sessions[task[t].response.session_id] =
              [query |-> JStr(QLikeTokyo), timestamp |-> now]


\* C2: a StreamRequest whose non-empty session_id is not a key of the store
\* (never created, or swept) ends at once with 404 "Session not found or
\* expired": no frame, no provider call, and not a 500.
C2_UnknownSessionIsNotFound ==
    [][\A t \in Tasks :
        (/\ Starts(t, "messages")
         /\ task'[t].session_id # NoSessionId
         /\ task'[t].session_id \notin DOMAIN active_sessions)
        => /\ task'[t].pc = "done"
           /\ task'[t].status = 404
           /\ task'[t].detail = "Session not found or expired"
           /\ task'[t].frames = << >>
           /\ task'[t].calls = 0
    ]_vars

\* A request for an id that was handed out earlier and has since been swept
\* has been refused.
C2_Witness ==
    \E t \in Tasks :
        /\ task[t].pc = "done" /\ task[t].op = "messages"
        /\ task[t].status = 404
        /\ task[t].session_id \in 1..uuids
        /\ task[t].session_id \notin DOMAIN active_sessions

\* The frames of a stream so far are a prefix of: delta(assistant, text), finish(stop).
TwoFramePrefix(frames) ==
    /\ Len(frames) <= 2
    /\ Len(frames) >= 1 =>
          /\ frames[1].kind = "delta"
          /\ frames[1].role = "assistant"
          /\ frames[1].content.tpl # ""
    /\ Len(frames) = 2 =>
          /\ frames[2].kind = "finish"
          /\ frames[2].finish_reason = "stop"

\* The texts that report a failure in band.
ErrorTexts ==
    {"Error: Timeout while getting weather data for {city}. Please try again later.",
     "Error: Could not find weather data for {city}. Please check the city name and try again.",
     "Error: Could not retrieve weather data for {city}. The weather service might be unavailable.",
     "Error: An unexpected error occurred while getting weather data for {city}.",
     "Error: Timeout while getting forecast data for {city}. Please try again later.",
     "Error: Could not find forecast data for {city}. Please check the city name and try again.",
     "Error: Could not retrieve forecast data for {city}. The weather service might be unavailable.",
     "Error: An unexpected error occurred while getting forecast data for {city}.",
     "Error: Could not get weather data for {city}. {e}",
     "Sorry, I encountered an error while getting the weather information: {e}"}

\* C3: once a StreamRequest has been answered with a stream, the frames sent
\* are at every moment a prefix of the two-frame sequence, the stream has
\* sent both when it closes, and the first carries an error text whenever the
\* provider failed or the generator caught an exception.
C3_StreamIsExactlyTwoFrames ==
    \A t \in Tasks :
        (task[t].op = "messages" /\ task[t].status = 200)
        => /\ TwoFramePrefix(task[t].frames)
           /\ task[t].pc = "done" => Len(task[t].frames) = 2
           /\ task[t].pc \in {"y1", "y2", "done"} /\ task[t].outcome = "ok"
                 => task[t].frames[1].content.tpl \notin ErrorTexts
           /\ task[t].pc \in {"y1", "y2", "done"} /\ task[t].outcome # "ok"
                 => task[t].frames[1].content.tpl \in ErrorTexts
           /\ task[t].pc \in {"ey1", "ey2"} => task[t].frames[1].content.tpl \in ErrorTexts

\* A stream whose generator caught an exception has closed after its two frames.
C3_Witness ==
    \E t \in Tasks :
        /\ task[t].pc = "done" /\ task[t].op = "messages" /\ task[t].status = 200
        /\ Len(task[t].frames) = 2
        /\ task[t].frames[1].content.tpl =
              "Sorry, I encountered an error while getting the weather information: {e}"


\* The age of stored session id at the present time.
Age(id) == now - active_sessions[id].timestamp

\* Handler t is between its session lookup and the end of its stream.
InFlight(t) == task[t].pc \in {"body", "gen", "tool_s", "y1", "y2", "ey1", "ey2"}

\* C4: a StreamRequest for a stored session whose timestamp is more than 300
\* seconds before the time of the request is refused with 404 and the session
\* is gone from the store after that step, whatever the other handlers are
\* doing.
C4_ExpiredSessionIsRefused ==
    [][\A t \in Tasks :
        (/\ Starts(t, "messages")
         /\ task'[t].session_id \in DOMAIN active_sessions
         /\ Age(task'[t].session_id) > SESSION_EXPIRATION)
        => /\ task'[t].pc = "done"
           /\ task'[t].status = 404
           /\ task'[t].session_id \notin DOMAIN active_sessions'
    ]_vars

\* A request has been refused for a swept session while another handler was
\* still streaming for that session.
C4_Witness ==
    \E t, u \in Tasks :
        /\ t # u
        /\ task[t].pc = "done" /\ task[t].op = "messages" /\ task[t].status = 404
        /\ task[t].session_id \in 1..uuids
        /\ task[t].session_id \notin DOMAIN active_sessions
        /\ InFlight(u) /\ task[u].session_id = task[t].session_id

\* C5: the refresh at the end of a stream is never applied to a session whose
\* timestamp is, at that moment, more than 300 seconds old.
C5_RefreshNeverRevivesExpired ==
    [][\A t \in Tasks :
        (task[t].pc = "y2" /\ task'[t].pc = "done" /\ task'[t].touched)
        => Age(task[t].session_id) <= SESSION_EXPIRATION
    ]_vars

\* C6: a record leaves the store only in the sweep of a StreamRequest, and
\* only when it is more than 300 seconds old; a StreamRequest for a stored
\* session that is at most 300 seconds old passes the lookup and leaves the
\* session stored.
C6_OnlyTheSweepRemoves ==
    [][/\ \A id \in DOMAIN active_sessions \ DOMAIN active_sessions' :
             /\ \E t \in Tasks : Starts(t, "messages") /\ task'[t].session_id # NoSessionId
             /\ Age(id) > SESSION_EXPIRATION
       /\ \A t \in Tasks :
             (/\ Starts(t, "messages")
              /\ task'[t].session_id \in DOMAIN active_sessions
              /\ Age(task'[t].session_id) <= SESSION_EXPIRATION)
             => /\ task'[t].pc = "body"
                /\ task'[t].session_id \in DOMAIN active_sessions'
    ]_vars

\* Two streams have completed on one session, which is still stored, the
\* second more than 300 seconds after the session was created.
C6_Witness ==
    \E t, u \in Tasks :
        /\ t # u
        /\ task[t].pc = "done" /\ task[t].touched
        /\ task[u].pc = "done" /\ task[u].touched
        /\ task[t].session_id = task[u].session_id
        /\ task[t].session_id \in DOMAIN active_sessions
        /\ now > SESSION_EXPIRATION

\* C7 as stated: every StreamRequest that passed the session lookup has, once
\* it is over, set the session's timestamp.
C7_EveryLookupRefreshes ==
    \A t \in Tasks :
        (task[t].op = "messages" /\ task[t].pc = "done" /\ task[t].status \notin {400, 404})
        => task[t].touched

\* C7, amended: when a stream ends on the generator's normal path and the
\* session is still stored, its timestamp becomes the time of that moment and
\* nothing else in the store changes; a request that ends with a 500, a
\* stream that ends in the generator's outer handler, and a stream whose
\* session is no longer stored, leave the store as it is.
C7_NormalCompletionRefreshes ==
    [][\A t \in Tasks :
        (task[t].op = "messages" /\ InFlight(t) /\ task'[t].pc = "done")
        => LET id == task[t].session_id
           IN IF task[t].pc = "y2" /\ id \in DOMAIN active_sessions
              THEN /\ task'[t].touched
                   /\ active_sessions' =
                         [active_sessions EXCEPT ![id] =
                             [query |-> active_sessions[id].query, timestamp |-> now]]
              ELSE /\ ~task'[t].touched
                   /\ active_sessions' = active_sessions
    ]_vars

\* A stream has ended and the session carries the time of its end, which is
\* later than the session's creation.
C7_Witness ==
    \E t \in Tasks :
        /\ task[t].pc = "done" /\ task[t].touched
        /\ task[t].session_id \in DOMAIN active_sessions
        /\ active_sessions[task[t].session_id].timestamp = now
        /\ now > 0


\* The body of a non-streaming request is well formed: it parses, its stream
\* flag is false, and messages[0].content, where written, is text.
WellFormedDirect(body) ==
    /\ HasFirstMessage(body)
    /\ body.stream = "false"
    /\ WrittenContent(body).t = "str"

\* C8: a non-streaming InitialRequest with a well-formed body never ends with
\* an HTTP error: while the tool call is awaited nothing has been raised, and
\* the response is {choices:[{message:{role:"assistant", content},
\* finish_reason:"stop"}]} with status 200, whose content is an error text
\* exactly when the provider call failed.
C8_DirectAnswerIsAlwaysSuccessShape ==
    \A t \in Tasks :
        (task[t].op = "initial" /\ WellFormedDirect(task[t].body))
        => /\ task[t].pc \in {"tool", "done"}
           /\ task[t].pc = "tool" => task[t].status = 0
           /\ task[t].pc = "done" =>
                 /\ task[t].status = 200
                 /\ task[t].calls = 1
                 /\ task[t].response.kind = "choices"
                 /\ task[t].response.role = "assistant"
                 /\ task[t].response.finish_reason = "stop"
                 /\ task[t].response.content.tpl # ""
                 /\ (task[t].outcome # "ok") <=> (task[t].response.content.tpl \in ErrorTexts)

\* A non-streaming request whose provider call timed out has been answered.
C8_Witness ==
    \E t \in Tasks :
        /\ task[t].op = "initial" /\ task[t].pc = "done"
        /\ WellFormedDirect(task[t].body)
        /\ task[t].outcome = "Timeout"
        /\ task[t].status = 200
        /\ task[t].response.content.tpl =
              "Error: Timeout while getting weather data for {city}. Please try again later."

\* C9: a StreamRequest without a session_id ends at once with 400
\* "session_id is required", and the step leaves the session store as it
\* was: nothing is swept, looked up or refreshed, and no provider call made.
C9_MissingSessionIdIsBadRequest ==
    [][\A t \in Tasks :
        (Starts(t, "messages") /\ task'[t].session_id = NoSessionId)
        => /\ task'[t].pc = "done"
           /\ task'[t].status = 400
           /\ task'[t].detail = "session_id is required"
           /\ task'[t].frames = << >>
           /\ task'[t].calls = 0
           /\ ~task'[t].touched
           /\ active_sessions' = active_sessions
    ]_vars

\* A request without session_id has been refused while the store holds a
\* session that a sweep would remove.
C9_Witness ==
    \E t \in Tasks :
        /\ task[t].op = "messages" /\ task[t].pc = "done" /\ task[t].status = 400
        /\ \E id \in DOMAIN active_sessions : Age(id) > SESSION_EXPIRATION

\* C10: the query of a stored session never changes; a StreamRequest whose
\* body carries messages[0].content streams for that content, and one whose
\* body has no messages, an empty list, or a message without content streams
\* for the query stored in the session.
C10_StoredQueryIsNeverOverwritten ==
    [][/\ \A id \in DOMAIN active_sessions \cap DOMAIN active_sessions' :
             active_sessions'[id].query = active_sessions[id].query
       /\ \A t \in Tasks :
             (task[t].pc = "body" /\ task'[t].pc = "gen")
             => /\ task'[t].body.messages = "content"
                      => task'[t].query = task'[t].body.content
                /\ (/\ task'[t].body.messages \in {"absent", "empty", "nocontent"}
                    /\ task[t].session_id \in DOMAIN active_sessions)
                      => task'[t].query = active_sessions[task[t].session_id].query
    ]_vars

\* A request is about to stream for the content of its own body while the
\* session, already refreshed by an earlier stream, still holds the query it
\* was created with.
C10_Witness ==
    \E t \in Tasks :
        /\ task[t].pc = "gen"
        /\ task[t].session_id \in DOMAIN active_sessions
        /\ active_sessions[task[t].session_id].timestamp > 0
        /\ task[t].body.messages = "content"
        /\ task[t].query = JStr(QForecastParis)
        /\ active_sessions[task[t].session_id].query = JStr(QLikeTokyo)


\* C11: the sweep of a StreamRequest removes exactly the records whose
\* timestamp is more than 300 seconds before the present time and returns
\* their number; every other record (one exactly 300 seconds old, one just
\* created, one another handler is streaming for) stays with its query and
\* timestamp, wherever the other handlers stand.
C11_SweepRemovesExactlyTheExpired ==
    [][\A t \in Tasks :
        (Starts(t, "messages") /\ task'[t].session_id # NoSessionId)
        => LET old == {id \in DOMAIN active_sessions : Age(id) > SESSION_EXPIRATION}
           IN /\ DOMAIN active_sessions' = DOMAIN active_sessions \ old
              /\ \A id \in DOMAIN active_sessions' : active_sessions'[id] = active_sessions[id]
              /\ task'[t].num_expired = Cardinality(old)
    ]_vars

\* A sweep has removed one session and kept another that was exactly 300
\* seconds old, for which the other handler is streaming.
C11_Witness ==
    \E t, u \in Tasks :
        /\ t # u
        /\ task[t].op = "messages" /\ task[t].num_expired = 1
        /\ InFlight(u)
        /\ task[u].session_id \in DOMAIN active_sessions
        /\ Age(task[u].session_id) = SESSION_EXPIRATION


\* C12: an InitialRequest with stream true or absent whose body does not
\* parse, or whose messages list is empty, ends with 500 and the message of
\* the exception, and creates no session; a StreamRequest whose body does not
\* parse, or whose messages[0] is no object, ends with 500 and the message of
\* the exception, sends no frame, calls no provider and leaves the store
\* (every timestamp) as it was.
C12_MalformedBodyIs500WithoutSessionEffect ==
    [][\A t \in Tasks :
        /\ (/\ Starts(t, "initial")
            /\ task'[t].body.stream \in {"true", "absent"}
            /\ ~task'[t].body.json \/ task'[t].body.messages = "empty")
           => /\ task'[t].pc = "done"
              /\ task'[t].status = 500
              /\ task'[t].detail =
                    IF task'[t].body.json THEN "IndexError" ELSE "JSONDecodeError"
              /\ task'[t].response = NoResponse
              /\ active_sessions' = active_sessions
              /\ uuids' = uuids
        /\ (/\ task[t].pc = "body" /\ task'[t].pc # "body"
            /\ ~task'[t].body.json \/ task'[t].body.messages = "nonobj")
           => /\ task'[t].pc = "done"
              /\ task'[t].status = 500
              /\ task'[t].detail =
                    IF task'[t].body.json THEN "AttributeError" ELSE "JSONDecodeError"
              /\ task'[t].frames = << >>
              /\ task'[t].calls = 0
              /\ ~task'[t].touched
              /\ active_sessions' = active_sessions
    ]_vars

\* A StreamRequest for a stored session has failed on a messages[0] that is
\* no object, after the clock moved on from the session's timestamp.
C12_Witness ==
    \E t \in Tasks :
        /\ task[t].op = "messages" /\ task[t].pc = "done"
        /\ task[t].status = 500 /\ task[t].detail = "AttributeError"
        /\ task[t].session_id \in DOMAIN active_sessions
        /\ Age(task[t].session_id) > 0


\* The ids that were handed out and are no longer (or not) in the store.
Swept == (1..uuids) \ DOMAIN active_sessions

\* Some step of the StreamRequest that handler t is serving.
StreamProgress(t) ==
    \/ \E body \in StreamBodies : messages_body(t, body)
    \/ stream_begin(t)
    \/ \E outcome \in ProviderOutcomes : stream_tool_return(t, outcome)
    \/ stream_resume(t)
    \/ stream_end(t)
    \/ stream_end_error(t)

\* C13: a session that has been swept is never stored again; a stream in
\* flight for it can still take its next step, and when it ends on the
\* normal path it has sent its two frames with status 200, writes nothing
\* into the store and records no refresh; a StreamRequest that then names
\* the id is refused with 404.
C13_SweptSessionIsNotRevived ==
    [][/\ \A id \in Swept : id \notin DOMAIN active_sessions'
       /\ \A t \in Tasks :
             /\ (InFlight(t) /\ task[t].session_id \in Swept)
                => ENABLED StreamProgress(t)
             /\ (/\ task[t].pc = "y2" /\ task'[t].pc = "done"
                 /\ task[t].session_id \in Swept)
                => /\ task'[t].status = 200
                   /\ Len(task'[t].frames) = 2
                   /\ TwoFramePrefix(task'[t].frames)
                   /\ ~task'[t].touched
                   /\ active_sessions' = active_sessions
             /\ (Starts(t, "messages") /\ task'[t].session_id \in Swept)
                => task'[t].status = 404
    ]_vars

\* A stream that got its answer from the provider has closed after two
\* frames without a refresh, the session it was opened for is gone, and the
\* other handler has been refused that session.
C13_Witness ==
    \E t, u \in Tasks :
        /\ t # u
        /\ task[t].op = "messages" /\ task[t].pc = "done" /\ task[t].status = 200
        /\ task[t].outcome = "ok" /\ Len(task[t].frames) = 2
        /\ ~task[t].touched
        /\ task[t].session_id \in Swept
        /\ task[u].op = "messages" /\ task[u].status = 404
        /\ task[u].session_id = task[t].session_id


\* What POST /v1/mcp answers to a query text when the provider does outcome.
DirectAnswer(toks, outcome) ==
    answer_text(call_tool(toks, extract_city(toks), outcome), extract_city(toks))

\* What the generator puts into its first frame for the same text and outcome.
StreamAnswer(toks, outcome) ==
    stream_answer_text(stream_call_tool(toks, stream_extract_city(toks), outcome),
                       stream_extract_city(toks))

\* A tool call that came back as an exception e.
Raised(e) == [raised |-> TRUE, error |-> e, outcome |-> e, value |-> NoText]

\* C14: the two modes agree on the answer. The content of every
\* non-streaming answer is what the generator computes for the same query
\* text and provider outcome, the content of the first frame of every stream
\* that reached the provider is what the non-streaming handler computes for
\* the stream's effective query and the same outcome; while either waits
\* for the provider, the city it asks about is the city the other extracts
\* from the same text, and an exception out of the call would be worded the
\* same way by both.
C14_ModesAgreeOnTheAnswer ==
    /\ \A t \in Tasks :
          /\ (/\ task[t].op = "initial" /\ task[t].pc = "done"
              /\ task[t].response.kind = "choices")
             => task[t].response.content = StreamAnswer(task[t].query.v, task[t].outcome)
          /\ (/\ task[t].op = "messages" /\ task[t].pc \in {"y1", "y2", "done"}
              /\ task[t].outcome # "")
             => /\ Len(task[t].frames) >= 1
                /\ task[t].frames[1].kind = "delta"
                /\ task[t].frames[1].content = DirectAnswer(task[t].query.v, task[t].outcome)
          /\ task[t].pc = "tool" => task[t].city = stream_extract_city(task[t].query.v)
          /\ task[t].pc = "tool_s" => task[t].city = extract_city(task[t].query.v)
          /\ task[t].pc \in {"tool", "tool_s"}
             => \A e \in ProviderOutcomes \ {"ok"} :
                   answer_text(Raised(e), task[t].city)
                     = stream_answer_text(Raised(e), task[t].city)

\* A stream whose effective query asks about tomorrow and names no city has
\* sent the provider's not-found wording for the forecast of London.
C14_Witness ==
    \E t \in Tasks :
        /\ task[t].op = "messages" /\ task[t].pc = "done"
        /\ task[t].query = JStr(QTomorrow)
        /\ task[t].outcome = "NotFound"
        /\ Len(task[t].frames) = 2
        /\ task[t].frames[1].content =
             Text("Error: Could not find forecast data for {city}. Please check the city name and try again.",
                  <<"London">>, "")
        /\ task[t].frames[1].content = DirectAnswer(QTomorrow, "NotFound")

====
